---- MODULE Spec2Model ----
(***************************************************************************)
(* A model of exmaralda_converter/exmaralda.py: the transcript document    *)
(* (speaker table, timeline, tiers, events), the process-wide Timepoint    *)
(* counter, the serializer print_transcript and the parser load.           *)
(*                                                                         *)
(* Python values.  A str is a sequence of tokens (each token one or more   *)
(* characters, no token a concatenation of others), so that '' is <<>>,    *)
(* concatenation is \o, ', '.join puts a ", " token between the parts and  *)
(* s[1:] of a string whose first token is one character is Tail(s).  An    *)
(* int is <<"int", n>>, a str used where ints also occur is <<"str", s>>,  *)
(* a time stamp number of k tenths is <<"num", k>>, None is <<>> and a     *)
(* value that may be None is <<v>>.                                        *)
(***************************************************************************)
EXTENDS Integers, Sequences, FiniteSets, TLC

VARIABLES
    running_id,   \* Timepoint.running_id, the class attribute
    nMinted,      \* history: how many Timepoints were ever constructed (the next object's identity)
    minted,       \* history: the identifiers the constructions by the caller were given, in order
    held,         \* the Timepoint objects the caller holds a reference to
    doc,          \* the ExmaraldaTranscript the caller works on
    fresh,        \* TRUE until the first call on doc
    last,         \* the last call: operation, argument, exception, output, result
    budget        \* how many more calls of each bounded kind the exploration makes

vars == <<running_id, nMinted, minted, held, doc, fresh, last, budget>>

(***************************************************************************)
(* Bounds of the exploration.                                              *)
(***************************************************************************)
MaxTimepoints == 3   \* Timepoint constructions by the caller
MaxDeletes    == 1   \* del statements of the caller
MaxEvents     == 2   \* add_event calls
MaxTierOps    == 3   \* add_tier calls
MaxInputLen   == 2   \* speaker blocks, and blocks of the body, in a parsed text

(***************************************************************************)
(* Strings.                                                                *)
(***************************************************************************)
S(tok) == <<tok>>
EmptyStr == <<>>

RECURSIVE lstrip(_)
lstrip(s) == IF s # <<>> /\ Head(s) = " " THEN lstrip(Tail(s)) ELSE s

RECURSIVE rstrip(_)
rstrip(s) == IF s # <<>> /\ s[Len(s)] = " " THEN rstrip(SubSeq(s, 1, Len(s) - 1)) ELSE s

\* str.strip()
strip(s) == rstrip(lstrip(s))

\* ', '.join(parts)
RECURSIVE join(_)
join(parts) ==
    IF parts = <<>> THEN <<>>
    ELSE IF Len(parts) = 1 THEN parts[1]
    ELSE parts[1] \o <<", ">> \o join(Tail(parts))

\* str(n) for an int n >= 0, one token per digit
Digits == <<"0", "1", "2", "3", "4", "5", "6", "7", "8", "9">>
RECURSIVE DigitStr(_)
DigitStr(n) == IF n < 10 THEN <<Digits[n + 1]>> ELSE DigitStr(n \div 10) \o <<Digits[(n % 10) + 1]>>

\* '{}'.format(v) for the values that are formatted: an int, a number of
\* tenths (a float, printed as d.d), or a str (itself)
format(v) ==
    IF v[1] = "int" THEN DigitStr(v[2])
    ELSE IF v[1] = "num" THEN
        IF v[2] < 0 THEN <<"-">> \o DigitStr(-v[2]) ELSE DigitStr(v[2] \div 10) \o <<".">> \o DigitStr(v[2] % 10)
    ELSE v[2]

IntV(n) == <<"int", n>>
NumV(k) == <<"num", k>>
StrV(s) == <<"str", s>>

None == <<>>
Some(v) == <<v>>

\* the order of < on the single-token strings used as speaker identifiers
TokenOrder == <<"a", "b", "c">>
TokenRank(tok) == CHOOSE i \in 1..Len(TokenOrder) : TokenOrder[i] = tok

\* s < t for Python strings (lexicographic)
RECURSIVE str_lt(_, _)
str_lt(s, t) ==
    IF t = <<>> THEN FALSE
    ELSE IF s = <<>> THEN TRUE
    ELSE IF Head(s) = Head(t) THEN str_lt(Tail(s), Tail(t))
    ELSE TokenRank(Head(s)) < TokenRank(Head(t))

\* set(list) of a Python list
ToSet(seq) == {seq[i] : i \in DOMAIN seq}

RECURSIVE Concat(_)
Concat(seqs) == IF seqs = <<>> THEN <<>> ELSE Head(seqs) \o Concat(Tail(seqs))

(***************************************************************************)
(* Speaker                                                                 *)
(***************************************************************************)
\* the languages arguments are "str or [str]": <<"str", s>> or <<"list", l>>
LangArg(x) == IF x[1] = "str" THEN <<>> ELSE x[2]

\* Speaker.__init__
Speaker(speaker_id, abbreviation, sex, languages_used, l1, l2, ud_speaker_information, comment) ==
    [speaker_id |-> speaker_id,
     abbreviation |-> abbreviation,
     sex |-> sex,
     languages_used |-> LangArg(languages_used),
     l1 |-> LangArg(l1),
     l2 |-> LangArg(l2),
     ud_speaker_information |-> ud_speaker_information,
     comment |-> comment]

\* Speaker.__eq__
Speaker_eq(a, b) ==
    /\ a.speaker_id = b.speaker_id
    /\ a.abbreviation = b.abbreviation
    /\ a.sex = b.sex
    /\ ToSet(a.languages_used) = ToSet(b.languages_used)
    /\ ToSet(a.l1) = ToSet(b.l1)
    /\ ToSet(a.l2) = ToSet(b.l2)
    /\ a.ud_speaker_information = b.ud_speaker_information
    /\ a.comment = b.comment

\* s <= t, s > t for Python strings
str_le(s, t) == s = t \/ str_lt(s, t)
str_gt(s, t) == str_lt(t, s)

\* Speaker.__lt__, __le__, __gt__, __ge__
Speaker_lt(a, b) == str_lt(a.speaker_id, b.speaker_id)
Speaker_le(a, b) == str_le(a.speaker_id, b.speaker_id)
Speaker_gt(a, b) == str_gt(a.speaker_id, b.speaker_id)
Speaker_ge(a, b) == str_le(a.speaker_id, b.speaker_id)

(***************************************************************************)
(* Timepoint                                                               *)
(***************************************************************************)
DefaultTimeStamp == NumV(-1)

\* Timepoint.__init__: the object (oid is its identity) and the counter after it
TimepointInit(rid, oid, time_stamp, type) ==
    [tp |-> [oid |-> oid, time_id |-> IntV(rid), time_stamp |-> time_stamp, type |-> type],
     running_id |-> rid + 1]

\* Timepoint.__del__ as it would be without the decrement
TimepointDel_Keeps(rid) == rid

\* Timepoint.__del__
TimepointDel(rid) == rid - 1

\* Timepoint.set_time_id
set_time_id(tp, time_id) == [tp EXCEPT !.time_id = time_id]

\* Timepoint.__eq__
Timepoint_eq(a, b) == a.time_id = b.time_id /\ a.time_stamp = b.time_stamp

(***************************************************************************)
(* Event, Tier                                                             *)
(***************************************************************************)
\* Event.__init__
Event(start, end, content) == [start |-> start, end |-> end, content |-> content]

get_start_id(e) == e.start.time_id
get_end_id(e) == e.end.time_id

\* Tier.__init__
Tier(id, speaker, category, type, display_name) ==
    [id |-> id, speaker |-> speaker, category |-> category, type |-> type,
     display_name |-> display_name, event_list |-> <<>>]

\* the defaults of the optional parameters of Tier.__init__
Tier_defaults == [speaker |-> EmptyStr, category |-> S("v"), type |-> S("t"), display_name |-> EmptyStr]

\* Tier.add_event
Tier_add_event(t, e) == [t EXCEPT !.event_list = Append(@, e)]

(***************************************************************************)
(* ExmaraldaTranscript: an insertion-ordered dict is the sequence of its   *)
(* entries (speaker_table and tiers: the values, which carry their key;    *)
(* timeline: [key, tp]).                                                   *)
(***************************************************************************)
\* ExmaraldaTranscript.__init__ with its default arguments
NewTranscript ==
    [meta_information |->
        [project_name |-> EmptyStr, transcription_name |-> EmptyStr,
         referenced_file_url |-> <<>>, ud_meta_information |-> EmptyStr,
         comment |-> EmptyStr, transcription_convention |-> EmptyStr],
     speaker_table |-> <<>>,
     timeline |-> <<>>,
     tiers |-> <<>>]

SpeakerKeys(d) == {d.speaker_table[i].speaker_id : i \in DOMAIN d.speaker_table}
TierKeys(d) == {d.tiers[i].id : i \in DOMAIN d.tiers}
TimelineKeys(d) == {d.timeline[i].key : i \in DOMAIN d.timeline}

SpeakerIndex(d, id) == CHOOSE i \in DOMAIN d.speaker_table : d.speaker_table[i].speaker_id = id
TierIndex(d, id) == CHOOSE i \in DOMAIN d.tiers : d.tiers[i].id = id
TimelineIndex(d, key) == CHOOSE i \in DOMAIN d.timeline : d.timeline[i].key = key

\* dict[key] = value as it would be if an assigned key always went to the end
TimelineSet_MovesToEnd(tl, key, tp) ==
    LET IsOther(x) == x.key # key
    IN  Append(SelectSeq(tl, IsOther), [key |-> key, tp |-> tp])

\* dict[key] = value on the timeline: a new key goes to the end, an old one keeps its place
TimelineSet(tl, key, tp) ==
    IF \E i \in DOMAIN tl : tl[i].key = key
    THEN [i \in DOMAIN tl |-> IF tl[i].key = key THEN [key |-> key, tp |-> tp] ELSE tl[i]]
    ELSE Append(tl, [key |-> key, tp |-> tp])

\* ExmaraldaTranscript.contains_speaker
contains_speaker(d, speaker_id) == speaker_id \in SpeakerKeys(d)

\* ExmaraldaTranscript.contains_tier
contains_tier(d, tier_id) == tier_id \in TierKeys(d)

\* ExmaraldaTranscript.overwrite_speaker (a: the arguments)
overwrite_speaker(d, a) ==
    LET s == Speaker(a.speaker_id, a.abbreviation, a.sex, a.languages_used, a.l1, a.l2,
                     a.ud_speaker_information, a.comment)
    IN  IF a.speaker_id \in SpeakerKeys(d)
        THEN [d EXCEPT !.speaker_table[SpeakerIndex(d, a.speaker_id)] = s]
        ELSE [d EXCEPT !.speaker_table = Append(@, s)]

\* add_speaker as it would be without the contains_speaker test
add_speaker_Overwrites(d, a) == overwrite_speaker(d, a)

\* ExmaraldaTranscript.add_speaker
add_speaker(d, a) ==
    IF ~contains_speaker(d, a.speaker_id)
    THEN [d EXCEPT !.speaker_table =
            Append(@, Speaker(a.speaker_id, a.abbreviation, a.sex, a.languages_used, a.l1, a.l2,
                              a.ud_speaker_information, a.comment))]
    ELSE d

\* the defaults of the optional parameters of add_tier
add_tier_defaults ==
    [speaker |-> EmptyStr, tier_category |-> EmptyStr, tier_type |-> EmptyStr, display_name |-> EmptyStr]

\* add_tier as it would be without the test for the key: self.tiers[tier_id] = Tier(...)
add_tier_Replaces(d, a) ==
    LET t == Tier(a.tier_id, a.speaker, a.tier_category, a.tier_type, a.display_name)
    IN  IF a.tier_id \in TierKeys(d)
        THEN [d EXCEPT !.tiers[TierIndex(d, a.tier_id)] = t]
        ELSE [d EXCEPT !.tiers = Append(@, t)]

\* ExmaraldaTranscript.add_tier
add_tier(d, a) ==
    IF a.tier_id \notin TierKeys(d)
    THEN [d EXCEPT !.tiers = Append(@, Tier(a.tier_id, a.speaker, a.tier_category, a.tier_type, a.display_name))]
    ELSE d

\* add_event as it would be with self.timeline[id] = tp done unconditionally
add_event_Overwrites(d, event, tier_id) ==
    IF tier_id \in TierKeys(d)
    THEN LET d1 == [d EXCEPT !.tiers[TierIndex(d, tier_id)] = Tier_add_event(@, event)]
             d2 == [d1 EXCEPT !.timeline = TimelineSet(@, event.start.time_id, event.start)]
             d3 == [d2 EXCEPT !.timeline = TimelineSet(@, event.end.time_id, event.end)]
         IN  [doc |-> d3, printed |-> <<>>]
    ELSE [doc |-> d, printed |-> << <<"dict_keys", [i \in DOMAIN d.tiers |-> d.tiers[i].id]>> >>]

\* add_event as it would be with the time points registered before the tier is looked up
add_event_RegistersFirst(d, event, tier_id) ==
    LET d2 == IF event.start.time_id \notin TimelineKeys(d)
              THEN [d EXCEPT !.timeline = TimelineSet(@, event.start.time_id, event.start)]
              ELSE d
        d3 == IF event.end.time_id \notin TimelineKeys(d2)
              THEN [d2 EXCEPT !.timeline = TimelineSet(@, event.end.time_id, event.end)]
              ELSE d2
    IN  IF tier_id \in TierKeys(d)
        THEN [doc |-> [d3 EXCEPT !.tiers[TierIndex(d, tier_id)] = Tier_add_event(@, event)], printed |-> <<>>]
        ELSE [doc |-> d3, printed |-> << <<"dict_keys", [i \in DOMAIN d.tiers |-> d.tiers[i].id]>> >>]

\* add_event as it would be without the registration of the end point
add_event_NoEndPoint(d, event, tier_id) ==
    IF tier_id \in TierKeys(d)
    THEN LET d1 == [d EXCEPT !.tiers[TierIndex(d, tier_id)] = Tier_add_event(@, event)]
             d2 == IF event.start.time_id \notin TimelineKeys(d1)
                   THEN [d1 EXCEPT !.timeline = TimelineSet(@, event.start.time_id, event.start)]
                   ELSE d1
         IN  [doc |-> d2, printed |-> <<>>]
    ELSE [doc |-> d, printed |-> << <<"dict_keys", [i \in DOMAIN d.tiers |-> d.tiers[i].id]>> >>]

\* ExmaraldaTranscript.add_event: the document after the call and what it printed
add_event(d, event, tier_id) ==
    IF tier_id \in TierKeys(d)
    THEN LET d1 == [d EXCEPT !.tiers[TierIndex(d, tier_id)] = Tier_add_event(@, event)]
             d2 == IF event.start.time_id \notin TimelineKeys(d1)
                   THEN [d1 EXCEPT !.timeline = TimelineSet(@, event.start.time_id, event.start)]
                   ELSE d1
             d3 == IF event.end.time_id \notin TimelineKeys(d2)
                   THEN [d2 EXCEPT !.timeline = TimelineSet(@, event.end.time_id, event.end)]
                   ELSE d2
         IN  [doc |-> d3, printed |-> <<>>]
    ELSE [doc |-> d, printed |-> << <<"dict_keys", [i \in DOMAIN d.tiers |-> d.tiers[i].id]>> >>]

(***************************************************************************)
(* XML.  An element is [tag, attrib, text, children]; attrib is a function *)
(* from attribute names to strings.  In the text form (what is printed,    *)
(* what a file holds) text is a str; in the tree ElementTree builds, the   *)
(* text of an element without text is None.                                *)
(***************************************************************************)
NoAttrib == [n \in {} |-> EmptyStr]
El(tag, attrib, text, children) == [tag |-> tag, attrib |-> attrib, text |-> text, children |-> children]

\* the tokens that are markup: a text or attribute value holding one is not well-formed XML
MarkupTokens == {"<", "&"}
HasMarkup(s) == \E i \in DOMAIN s : s[i] \in MarkupTokens

RECURSIVE WellFormed(_)
WellFormed(e) ==
    /\ ~HasMarkup(e.text)
    /\ \A n \in DOMAIN e.attrib : ~HasMarkup(e.attrib[n])
    /\ \A i \in DOMAIN e.children : WellFormed(e.children[i])

RECURSIVE ElementTree(_)
RECURSIVE ElementTrees(_)
ElementTrees(es) == IF es = <<>> THEN <<>> ELSE <<ElementTree(Head(es))>> \o ElementTrees(Tail(es))
ElementTree(e) ==
    El(e.tag, e.attrib, IF e.text = EmptyStr THEN None ELSE Some(e.text), ElementTrees(e.children))

\* ET.parse(in_file).getroot(): raises ParseError on text that is not well-formed
ET_parse(src) ==
    IF WellFormed(src) THEN [raised |-> "", root |-> ElementTree(src)]
    ELSE [raised |-> "ParseError", root |-> None]

\* root.iter(tag): the elements with that tag, in document order
RECURSIVE iter(_, _)
iter(e, tag) ==
    (IF e.tag = tag THEN <<e>> ELSE <<>>)
    \o Concat([i \in DOMAIN e.children |-> iter(e.children[i], tag)])

(***************************************************************************)
(* The serializer                                                          *)
(***************************************************************************)
\* Speaker.pretty_print
Speaker_pretty_print(s) ==
    El("speaker", "id" :> s.speaker_id, EmptyStr,
       << El("abbreviation", NoAttrib, s.abbreviation, <<>>),
          El("sex", "value" :> s.sex, EmptyStr, <<>>),
          El("languages-used", NoAttrib, join(s.languages_used), <<>>),
          El("l1", NoAttrib, join(s.l1), <<>>),
          El("l2", NoAttrib, join(s.l2), <<>>),
          El("ud-speaker-information", NoAttrib, s.ud_speaker_information, <<>>),
          El("comment", NoAttrib, s.comment, <<>>) >>)

\* Timepoint.pretty_print
Timepoint_pretty_print(tp) ==
    LET a1 == IF tp.time_stamp = NumV(-1)
              THEN "id" :> (<<"T">> \o format(tp.time_id))
              ELSE ("id" :> (<<"T">> \o format(tp.time_id))) @@ ("time" :> format(tp.time_stamp))
    IN  IF Len(tp.type) = 0 THEN El("tli", a1, EmptyStr, <<>>)
        ELSE El("tli", a1 @@ ("type" :> tp.type), EmptyStr, <<>>)

\* Event.pretty_print
Event_pretty_print(e) ==
    El("event",
       ("start" :> (<<"T">> \o format(get_start_id(e)))) @@ ("end" :> (<<"T">> \o format(get_end_id(e)))),
       e.content, <<>>)

\* Tier.pretty_print
Tier_pretty_print(t) ==
    El("tier",
       ("id" :> t.id)
         @@ (IF Len(t.speaker) > 0 THEN "speaker" :> t.speaker ELSE NoAttrib)
         @@ ("category" :> t.category) @@ ("type" :> t.type) @@ ("display-name" :> t.display_name),
       EmptyStr,
       [i \in DOMAIN t.event_list |-> Event_pretty_print(t.event_list[i])])

\* ExmaraldaTranscript.print_meta_information
print_meta_information(d) ==
    LET m == d.meta_information
    IN  El("meta-information", NoAttrib, EmptyStr,
           << El("project-name", NoAttrib, m.project_name, <<>>),
              El("transcription-name", NoAttrib, m.transcription_name, <<>>) >>
           \o [i \in DOMAIN m.referenced_file_url |->
                 El("referenced-file", "url" :> m.referenced_file_url[i], EmptyStr, <<>>)]
           \o << El("ud-meta-information", NoAttrib, m.ud_meta_information, <<>>),
                 El("comment", NoAttrib, m.comment, <<>>),
                 El("transcription-convention", NoAttrib, m.transcription_convention, <<>>) >>)

\* sorted(keys): the keys of the speaker table in ascending order
RECURSIVE sorted(_)
sorted(keys) ==
    IF keys = {} THEN <<>>
    ELSE LET k == CHOOSE x \in keys : \A y \in keys \ {x} : str_lt(x, y)
         IN  <<k>> \o sorted(keys \ {k})

\* print_speaker_table as it would be iterating self.speaker_table.keys() without sorted
print_speaker_table_Unsorted(d) ==
    El("speakertable", NoAttrib, EmptyStr,
       [i \in DOMAIN d.speaker_table |-> Speaker_pretty_print(d.speaker_table[i])])

\* ExmaraldaTranscript.print_speaker_table
print_speaker_table(d) ==
    LET ks == sorted(SpeakerKeys(d))
    IN  El("speakertable", NoAttrib, EmptyStr,
           [i \in DOMAIN ks |-> Speaker_pretty_print(d.speaker_table[SpeakerIndex(d, ks[i])])])

\* ExmaraldaTranscript.print_head
print_head(d) == El("head", NoAttrib, EmptyStr, <<print_meta_information(d), print_speaker_table(d)>>)

\* print_timeline as it would be iterating sorted(self.timeline.keys()) (int keys)
RECURSIVE SortedByKey(_)
SortedByKey(tl) ==
    IF tl = <<>> THEN <<>>
    ELSE LET m == CHOOSE i \in DOMAIN tl : \A j \in DOMAIN tl : tl[i].key[2] <= tl[j].key[2]
         IN  <<tl[m]>> \o SortedByKey(SubSeq(tl, 1, m - 1) \o SubSeq(tl, m + 1, Len(tl)))

print_timeline_Sorted(d) ==
    LET tl == SortedByKey(d.timeline)
    IN  El("common-timeline", NoAttrib, EmptyStr, [i \in DOMAIN tl |-> Timepoint_pretty_print(tl[i].tp)])

\* ExmaraldaTranscript.print_timeline
print_timeline(d) ==
    El("common-timeline", NoAttrib, EmptyStr,
       [i \in DOMAIN d.timeline |-> Timepoint_pretty_print(d.timeline[i].tp)])

\* print_body as it would be with the timeline printed after the tiers
print_body_TimelineLast(d) ==
    El("basic-body", NoAttrib, EmptyStr,
       [i \in DOMAIN d.tiers |-> Tier_pretty_print(d.tiers[i])] \o <<print_timeline(d)>>)

\* ExmaraldaTranscript.print_body
print_body(d) ==
    El("basic-body", NoAttrib, EmptyStr,
       <<print_timeline(d)>> \o [i \in DOMAIN d.tiers |-> Tier_pretty_print(d.tiers[i])])

\* ExmaraldaTranscript.print_transcript
print_transcript(d) == El("basic-transcription", NoAttrib, EmptyStr, <<print_head(d), print_body(d)>>)

(***************************************************************************)
(* Metadata setters                                                        *)
(***************************************************************************)
set_project_name(d, v) == [d EXCEPT !.meta_information.project_name = v]
set_transcription_name(d, v) == [d EXCEPT !.meta_information.transcription_name = v]
set_referenced_file_url(d, v) == [d EXCEPT !.meta_information.referenced_file_url = <<v>>]
add_referenced_file_url(d, v) == [d EXCEPT !.meta_information.referenced_file_url = Append(@, v)]
set_ud_meta_information(d, v) == [d EXCEPT !.meta_information.ud_meta_information = v]
set_comment(d, v) == [d EXCEPT !.meta_information.comment = v]
set_transcription_convention(d, v) == [d EXCEPT !.meta_information.transcription_convention = v]

(***************************************************************************)
(* The parser.  The loops of load are folds over the elements root.iter    *)
(* yields; the state of a fold is [d, rid, oid, printed, raised]: the      *)
(* document under construction, Timepoint.running_id, the number of        *)
(* Timepoints constructed so far, what was printed, and the exception that *)
(* ended the load ("" while there is none).                                *)
(***************************************************************************)
\* s[1:]
slice1(s) == IF s = <<>> THEN <<>> ELSE Tail(s)

\* c_info.text.strip() if c_info.text is not None else ''
text_or_empty_stripped(e) == IF e.text # None THEN strip(e.text[1]) ELSE EmptyStr

\* load, "load meta information": the last element of each name wins
RECURSIVE load_meta_field(_, _, _)
load_meta_field(d, elems, field) ==
    IF elems = <<>> THEN d
    ELSE load_meta_field([d EXCEPT !.meta_information[field] = text_or_empty_stripped(Head(elems))],
                         Tail(elems), field)

load_meta(d, root) ==
    LET d1 == load_meta_field(d, iter(root, "project-name"), "project_name")
        d2 == load_meta_field(d1, iter(root, "transcription-name"), "transcription_name")
        d3 == load_meta_field(d2, iter(root, "transcription-convention>"), "transcription_convention")
    IN  load_meta_field(d3, iter(root, "<comment>"), "comment")

\* load, the loop over the children of one speaker element
RECURSIVE load_speaker_children(_, _)
load_speaker_children(children, acc) ==
    IF children = <<>> THEN acc
    ELSE LET c == Head(children)
             a1 == IF c.tag = "abbreviation" /\ c.text # None THEN [acc EXCEPT !.abbr = c.text[1]] ELSE acc
             a2 == IF c.tag = "sex" /\ "value" \in DOMAIN c.attrib THEN [a1 EXCEPT !.sex = c.attrib["value"]] ELSE a1
             a3 == IF c.tag = "l1" /\ c.text # None THEN [a2 EXCEPT !.l1 = Append(@, c.text[1])] ELSE a2
             a4 == IF c.tag = "l2" /\ c.text # None THEN [a3 EXCEPT !.l2 = Append(@, c.text[1])] ELSE a3
             a5 == IF c.tag = "comment" /\ c.text # None THEN [a4 EXCEPT !.comment = c.text[1]] ELSE a4
             a6 == IF c.tag = "languages-used" /\ c.text # None THEN [a5 EXCEPT !.lang = Append(@, c.text[1])] ELSE a5
         IN  load_speaker_children(Tail(children), a6)

\* load, "load speaker information"
RECURSIVE load_speakers(_, _)
load_speakers(st, elems) ==
    IF elems = <<>> \/ st.raised # "" THEN st
    ELSE LET e == Head(elems)
             acc == load_speaker_children(e.children,
                        [abbr |-> EmptyStr, sex |-> EmptyStr, lang |-> <<>>, l1 |-> <<>>, l2 |-> <<>>,
                         comment |-> EmptyStr])
         IN  IF "id" \notin DOMAIN e.attrib THEN [st EXCEPT !.raised = "KeyError"]
             ELSE load_speakers(
                    [st EXCEPT !.d = add_speaker(@,
                        [speaker_id |-> e.attrib["id"], abbreviation |-> acc.abbr, sex |-> acc.sex,
                         languages_used |-> <<"list", acc.lang>>, l1 |-> <<"list", acc.l1>>,
                         l2 |-> <<"list", acc.l2>>, ud_speaker_information |-> EmptyStr,
                         comment |-> acc.comment])],
                    Tail(elems))

\* load, "load timelines"
RECURSIVE load_timeline(_, _)
load_timeline(st, elems) ==
    IF elems = <<>> \/ st.raised # "" THEN st
    ELSE LET e == Head(elems)
         IN  IF "time" \notin DOMAIN e.attrib THEN [st EXCEPT !.raised = "KeyError"]
             ELSE LET c == TimepointInit(st.rid, st.oid, StrV(e.attrib["time"]), EmptyStr)
                  IN  IF "id" \notin DOMAIN e.attrib
                      THEN [st EXCEPT !.raised = "KeyError", !.rid = c.running_id, !.oid = st.oid + 1]
                      ELSE LET key == StrV(slice1(e.attrib["id"]))
                               new_tp == [c.tp EXCEPT !.time_id = key]
                               replaced == key \in TimelineKeys(st.d)
                           IN  load_timeline(
                                 [st EXCEPT !.d.timeline = TimelineSet(@, key, new_tp),
                                            !.rid = IF replaced THEN TimepointDel(c.running_id) ELSE c.running_id,
                                            !.oid = st.oid + 1],
                                 Tail(elems))

\* the loop over the children of one tier element as it would be with break in place of
\* continue: the first child that is no event ends the loop
RECURSIVE load_events_Breaks(_, _, _)
load_events_Breaks(st, c_tier_id, children) ==
    IF children = <<>> \/ st.raised # "" THEN st
    ELSE LET x == Head(children)
         IN  IF x.tag # "event"
             THEN [st EXCEPT !.printed = Append(@, <<"Issue: something unexpected in tier ">>)]
             ELSE LET c1 == TimepointInit(st.rid, st.oid, DefaultTimeStamp, EmptyStr)
                      c2 == TimepointInit(c1.running_id, st.oid + 1, DefaultTimeStamp, EmptyStr)
                  IN  IF "start" \notin DOMAIN x.attrib \/ "end" \notin DOMAIN x.attrib
                      THEN [st EXCEPT !.raised = "KeyError"]
                      ELSE LET tp1 == set_time_id(c1.tp, StrV(slice1(x.attrib["start"])))
                               tp2 == set_time_id(c2.tp, StrV(slice1(x.attrib["end"])))
                               r == add_event(st.d,
                                       Event(tp1, tp2, IF x.text # None THEN x.text[1] ELSE EmptyStr),
                                       c_tier_id)
                           IN  load_events_Breaks(
                                 [st EXCEPT !.d = r.doc, !.printed = @ \o r.printed,
                                            !.rid = c2.running_id, !.oid = st.oid + 2],
                                 c_tier_id, Tail(children))

\* load, the loop over the children of one tier element
RECURSIVE load_events(_, _, _)
load_events(st, c_tier_id, children) ==
    IF children = <<>> \/ st.raised # "" THEN st
    ELSE LET x == Head(children)
         IN  IF x.tag # "event"
             THEN load_events([st EXCEPT !.printed = Append(@, <<"Issue: something unexpected in tier ">>)],
                              c_tier_id, Tail(children))
             ELSE LET c1 == TimepointInit(st.rid, st.oid, DefaultTimeStamp, EmptyStr)
                  IN  IF "start" \notin DOMAIN x.attrib
                      THEN [st EXCEPT !.raised = "KeyError", !.rid = c1.running_id, !.oid = st.oid + 1]
                      ELSE LET tp1 == set_time_id(c1.tp, StrV(slice1(x.attrib["start"])))
                               c2 == TimepointInit(c1.running_id, st.oid + 1, DefaultTimeStamp, EmptyStr)
                           IN  IF "end" \notin DOMAIN x.attrib
                               THEN [st EXCEPT !.raised = "KeyError", !.rid = c2.running_id, !.oid = st.oid + 2]
                               ELSE LET tp2 == set_time_id(c2.tp, StrV(slice1(x.attrib["end"])))
                                        r == add_event(st.d,
                                                Event(tp1, tp2, IF x.text # None THEN x.text[1] ELSE EmptyStr),
                                                c_tier_id)
                                    IN  load_events(
                                          [st EXCEPT !.d = r.doc, !.printed = @ \o r.printed,
                                                     !.rid = c2.running_id, !.oid = st.oid + 2],
                                          c_tier_id, Tail(children))

attrib_or_empty(e, name) == IF name \in DOMAIN e.attrib THEN e.attrib[name] ELSE EmptyStr

\* load, "load tiers and events"
RECURSIVE load_tiers(_, _)
load_tiers(st, elems) ==
    IF elems = <<>> \/ st.raised # "" THEN st
    ELSE LET e == Head(elems)
             c_tier_id == attrib_or_empty(e, "id")
             d1 == add_tier(st.d,
                     [tier_id |-> c_tier_id, speaker |-> attrib_or_empty(e, "speaker"),
                      tier_category |-> attrib_or_empty(e, "category"),
                      tier_type |-> attrib_or_empty(e, "type"),
                      display_name |-> attrib_or_empty(e, "display-name")])
         IN  load_tiers(load_events([st EXCEPT !.d = d1], c_tier_id, e.children), Tail(elems))

\* load as it would be with the loop over the tier elements before the loop over the tli
\* elements
load_TiersFirst(src, rid, oid) ==
    LET p == ET_parse(src)
        st0 == [d |-> NewTranscript, rid |-> rid, oid |-> oid, printed |-> <<>>, raised |-> p.raised]
    IN  IF p.raised # "" THEN st0
        ELSE LET root == p.root
                 st1 == load_speakers([st0 EXCEPT !.d = load_meta(@, root)], iter(root, "speaker"))
                 st2 == load_tiers(st1, iter(root, "tier"))
                 st3 == load_timeline(st2, iter(root, "tli"))
             IN  IF st3.raised # "" THEN [st3 EXCEPT !.rid = rid, !.d = NewTranscript] ELSE st3

\* ExmaraldaTranscript.load on the text src, with Timepoint.running_id = rid and
\* oid Timepoints constructed before.  An exception leaves the document under
\* construction unreachable, and its Timepoints are destroyed.
load(src, rid, oid) ==
    LET p == ET_parse(src)
        st0 == [d |-> NewTranscript, rid |-> rid, oid |-> oid, printed |-> <<>>, raised |-> p.raised]
    IN  IF p.raised # "" THEN st0
        ELSE LET root == p.root
                 st1 == load_speakers([st0 EXCEPT !.d = load_meta(@, root)], iter(root, "speaker"))
                 st2 == load_timeline(st1, iter(root, "tli"))
                 st3 == load_tiers(st2, iter(root, "tier"))
             IN  IF st3.raised # "" THEN [st3 EXCEPT !.rid = rid, !.d = NewTranscript] ELSE st3

(***************************************************************************)
(* Lookups that can fail                                                   *)
(***************************************************************************)
\* get_speaker as it would be with self.speaker_table.get(speaker_id)
get_speaker_Get(d, speaker_id) ==
    IF speaker_id \in SpeakerKeys(d)
    THEN [raised |-> "", ret |-> Some(d.speaker_table[SpeakerIndex(d, speaker_id)])]
    ELSE [raised |-> "", ret |-> None]

\* ExmaraldaTranscript.get_speaker: self.speaker_table[speaker_id]
get_speaker(d, speaker_id) ==
    IF speaker_id \in SpeakerKeys(d)
    THEN [raised |-> "", ret |-> Some(d.speaker_table[SpeakerIndex(d, speaker_id)])]
    ELSE [raised |-> "KeyError", ret |-> None]

\* ExmaraldaTranscript.get_tier: self.tiers[tier_id]
get_tier(d, tier_id) ==
    IF tier_id \in TierKeys(d)
    THEN [raised |-> "", ret |-> Some(d.tiers[TierIndex(d, tier_id)])]
    ELSE [raised |-> "KeyError", ret |-> None]

(***************************************************************************)
(* Reference counting: a Timepoint is destroyed when no reference to it is *)
(* left.  The references are the caller's (held) and the document's (its   *)
(* timeline and the events of its tiers).                                  *)
(***************************************************************************)
EventsOf(d) == UNION {ToSet(d.tiers[i].event_list) : i \in DOMAIN d.tiers}
TimepointsOf(d) ==
    {d.timeline[i].tp : i \in DOMAIN d.timeline}
    \cup {e.start : e \in EventsOf(d)} \cup {e.end : e \in EventsOf(d)}

(***************************************************************************)
(* The arguments the calls are made with                                   *)
(***************************************************************************)
TimepointArgs ==
    { [time_stamp |-> DefaultTimeStamp, type |-> EmptyStr],
      [time_stamp |-> NumV(1), type |-> S("b")] }

Contents == { EmptyStr, S("Hallo"), <<"a", "<", "b">> }

TierIds == { S("t1"), S("t2") }

TierArgs ==
    { [tier_id |-> S("t1"), speaker |-> S("a"), tier_category |-> S("v"), tier_type |-> S("t"),
       display_name |-> S("Anna")],
      [tier_id |-> S("t1"), speaker |-> EmptyStr, tier_category |-> EmptyStr, tier_type |-> EmptyStr,
       display_name |-> EmptyStr],
      [tier_id |-> S("t2"), speaker |-> EmptyStr, tier_category |-> EmptyStr, tier_type |-> EmptyStr,
       display_name |-> EmptyStr] }

SpeakerIds == { S("a"), S("b") }

SpeakerArgs ==
    { [speaker_id |-> S("b"), abbreviation |-> S("Anna"), sex |-> S("f"),
       languages_used |-> <<"list", <<S("de"), S("en")>> >>, l1 |-> <<"list", <<S("ru")>> >>,
       l2 |-> <<"list", <<S("de"), S("en")>> >>, ud_speaker_information |-> EmptyStr, comment |-> EmptyStr],
      [speaker_id |-> S("b"), abbreviation |-> EmptyStr, sex |-> EmptyStr,
       languages_used |-> <<"str", EmptyStr>>, l1 |-> <<"str", EmptyStr>>, l2 |-> <<"str", EmptyStr>>,
       ud_speaker_information |-> EmptyStr, comment |-> EmptyStr],
      [speaker_id |-> S("a"), abbreviation |-> S("Peter"), sex |-> S("m"),
       languages_used |-> <<"list", <<S("de")>> >>, l1 |-> <<"list", <<S("de")>> >>,
       l2 |-> <<"str", EmptyStr>>, ud_speaker_information |-> S("u"), comment |-> S("c")] }

MetaTexts == { S("x"), <<" ", "y">> }

(***************************************************************************)
(* The texts load is called on: a head with or without metadata, up to     *)
(* MaxInputLen speaker blocks and up to MaxInputLen blocks in the body, in *)
(* any order.                                                              *)
(***************************************************************************)
Leaf(tag, attrib, text) == El(tag, attrib, text, <<>>)

InputSpeakers ==
    { El("speaker", "id" :> S("a"), EmptyStr,
         << Leaf("abbreviation", NoAttrib, S("A")), Leaf("sex", "value" :> S("f"), EmptyStr),
            Leaf("languages-used", NoAttrib, <<"de", ", ", "en">>), Leaf("l1", NoAttrib, S("de")),
            Leaf("l2", NoAttrib, EmptyStr), Leaf("ud-speaker-information", NoAttrib, S("u")),
            Leaf("comment", NoAttrib, S("c")) >>),
      El("speaker", "id" :> S("a"), EmptyStr, << Leaf("abbreviation", NoAttrib, S("B")) >>),
      El("speaker", "id" :> S("b"), EmptyStr, <<>>) }

InputBlocks ==
    { El("common-timeline", NoAttrib, EmptyStr,
         << Leaf("tli", ("id" :> <<"T", "0">>) @@ ("time" :> <<"0", ".", "0">>), EmptyStr),
            Leaf("tli", ("id" :> <<"T", "1">>) @@ ("time" :> <<"0", ".", "1">>) @@ ("type" :> S("b")), EmptyStr) >>),
      El("common-timeline", NoAttrib, EmptyStr,
         << Leaf("tli", ("id" :> <<"T", "0">>) @@ ("time" :> <<"0", ".", "5">>), EmptyStr) >>),
      El("common-timeline", NoAttrib, EmptyStr,
         << Leaf("tli", "id" :> <<"T", "2">>, EmptyStr) >>),
      El("tier", ("id" :> S("t1")) @@ ("speaker" :> S("a")) @@ ("category" :> S("v")) @@ ("type" :> S("t"))
                   @@ ("display-name" :> S("Anna")), EmptyStr,
         << Leaf("event", ("start" :> <<"T", "0">>) @@ ("end" :> <<"T", "1">>), S("Hallo")) >>),
      El("tier", "id" :> S("t1"), EmptyStr,
         << Leaf("event", ("start" :> <<"T", "1">>) @@ ("end" :> <<"T", "1">>), S("a")),
            Leaf("ud-tier-information", NoAttrib, EmptyStr),
            Leaf("event", ("start" :> <<"T", "1">>) @@ ("end" :> <<"T", "5">>), EmptyStr) >>),
      El("tier", ("id" :> S("t2")) @@ ("category" :> S("v")), EmptyStr, <<>>) }

InputMetas ==
    { <<>>,
      << Leaf("project-name", NoAttrib, <<" ", "p">>), Leaf("transcription-name", NoAttrib, EmptyStr),
         Leaf("referenced-file", "url" :> S("x"), EmptyStr), Leaf("ud-meta-information", NoAttrib, S("x")),
         Leaf("comment", NoAttrib, S("x")), Leaf("transcription-convention", NoAttrib, S("x")) >> }

SeqsUpTo(set, n) == UNION {[1..k -> set] : k \in 0..n}

Inputs ==
    { El("basic-transcription", NoAttrib, EmptyStr,
         << El("head", NoAttrib, EmptyStr,
               << El("meta-information", NoAttrib, EmptyStr, m), El("speakertable", NoAttrib, EmptyStr, sp) >>),
            El("basic-body", NoAttrib, EmptyStr, b) >>) :
      m \in InputMetas, sp \in SeqsUpTo(InputSpeakers, MaxInputLen), b \in SeqsUpTo(InputBlocks, MaxInputLen) }

(***************************************************************************)
(* The state machine: one caller, one document.                            *)
(***************************************************************************)
Call(op, arg, raised, printed, ret) ==
    [op |-> op, arg |-> arg, raised |-> raised, printed |-> printed, ret |-> ret]

InitWith(b) ==
    /\ running_id = 0
    /\ nMinted = 0
    /\ minted = <<>>
    /\ held = {}
    /\ doc = NewTranscript
    /\ fresh = TRUE
    /\ last = Call("__init__", None, "", <<>>, None)
    /\ budget = b

Spend(kind) == budget[kind] > 0 /\ budget' = [budget EXCEPT ![kind] = @ - 1]

\* tp = Timepoint(time_stamp, type)
NewTimepoint ==
    /\ Spend("tp")
    /\ \E a \in TimepointArgs :
         LET c == TimepointInit(running_id, nMinted, a.time_stamp, a.type)
         IN  /\ running_id' = c.running_id
             /\ held' = held \cup {c.tp}
             /\ minted' = Append(minted, c.tp.time_id[2])
             /\ last' = Call("Timepoint", a, "", <<>>, Some(c.tp))
    /\ nMinted' = nMinted + 1
    /\ UNCHANGED <<doc, fresh>>

\* del tp: the caller drops its reference; the object is destroyed unless the document refers to it
DelTimepoint ==
    /\ Spend("del")
    /\ \E tp \in held :
         /\ held' = held \ {tp}
         /\ running_id' = IF tp \in TimepointsOf(doc) THEN running_id ELSE TimepointDel(running_id)
         /\ last' = Call("del", tp, "", <<>>, None)
    /\ UNCHANGED <<nMinted, minted, doc, fresh>>

DocOp(op, arg, d, raised, printed, ret) ==
    /\ doc' = d
    /\ fresh' = FALSE
    /\ last' = Call(op, arg, raised, printed, ret)
    /\ UNCHANGED <<running_id, nMinted, minted, held>>

AddSpeaker ==
    /\ Spend("spk")
    /\ \E a \in SpeakerArgs : DocOp("add_speaker", a, add_speaker(doc, a), "", <<>>, None)

OverwriteSpeaker ==
    /\ Spend("spk")
    /\ \E a \in SpeakerArgs : DocOp("overwrite_speaker", a, overwrite_speaker(doc, a), "", <<>>, None)

AddTier ==
    /\ Spend("tier")
    /\ \E a \in TierArgs : DocOp("add_tier", a, add_tier(doc, a), "", <<>>, None)

\* transcript.add_event(Event(start, end, content), tier_id)
AddEvent ==
    /\ Spend("ev")
    /\ \E start \in held, end \in held, content \in Contents, tier_id \in TierIds :
         LET e == Event(start, end, content)
             r == add_event(doc, e, tier_id)
         IN  DocOp("add_event", [event |-> e, tier_id |-> tier_id], r.doc, "", r.printed, None)

GetSpeaker ==
    /\ Spend("q")
    /\ \E id \in SpeakerIds :
         LET r == get_speaker(doc, id) IN DocOp("get_speaker", id, doc, r.raised, <<>>, r.ret)

ContainsSpeaker ==
    /\ Spend("q")
    /\ \E id \in SpeakerIds :
         DocOp("contains_speaker", id, doc, "", <<>>, Some(contains_speaker(doc, id)))

GetTier ==
    /\ Spend("q")
    /\ \E id \in TierIds :
         LET r == get_tier(doc, id) IN DocOp("get_tier", id, doc, r.raised, <<>>, r.ret)

ContainsTier ==
    /\ Spend("q")
    /\ \E id \in TierIds :
         DocOp("contains_tier", id, doc, "", <<>>, Some(contains_tier(doc, id)))

MetaOp(op, d, v) == Spend("meta") /\ DocOp(op, v, d, "", <<>>, None)

SetProjectName == \E v \in MetaTexts : MetaOp("set_project_name", set_project_name(doc, v), v)
SetTranscriptionName == \E v \in MetaTexts : MetaOp("set_transcription_name", set_transcription_name(doc, v), v)
SetReferencedFileUrl == \E v \in MetaTexts : MetaOp("set_referenced_file_url", set_referenced_file_url(doc, v), v)
AddReferencedFileUrl == \E v \in MetaTexts : MetaOp("add_referenced_file_url", add_referenced_file_url(doc, v), v)
SetUdMetaInformation == \E v \in MetaTexts : MetaOp("set_ud_meta_information", set_ud_meta_information(doc, v), v)
SetComment == \E v \in MetaTexts : MetaOp("set_comment", set_comment(doc, v), v)
SetTranscriptionConvention ==
    \E v \in MetaTexts : MetaOp("set_transcription_convention", set_transcription_convention(doc, v), v)

\* doc = ExmaraldaTranscript.load(src), in place of the document constructed empty
Load ==
    /\ fresh
    /\ Spend("load")
    /\ \E src \in Inputs :
         LET r == load(src, running_id, nMinted)
         IN  /\ doc' = IF r.raised = "" THEN r.d ELSE doc
             /\ running_id' = r.rid
             /\ nMinted' = r.oid
             /\ last' = Call("load", src, r.raised, r.printed, None)
    /\ fresh' = FALSE
    /\ UNCHANGED <<minted, held>>

(***************************************************************************)
(* Spec: the timeline, the tiers and the Timepoint counter.                *)
(***************************************************************************)
Init ==
    InitWith([tp |-> MaxTimepoints, del |-> MaxDeletes, ev |-> MaxEvents, tier |-> MaxTierOps, spk |-> 0,
              meta |-> 0, q |-> 0, load |-> 0])

Next ==
    \/ NewTimepoint
    \/ DelTimepoint
    \/ AddTier
    \/ AddEvent

Spec == Init /\ [][Next]_vars

(***************************************************************************)
(* SpecLoad: a document that is parsed, or constructed empty, and then     *)
(* worked on.                                                              *)
(***************************************************************************)
\* one load, and after it (or after none) one call of each kind
LoadBudget == [tp |-> 1, del |-> 0, ev |-> 1, tier |-> 1, spk |-> 1, meta |-> 0, q |-> 0, load |-> 1]

InitLoad == InitWith(LoadBudget)

NextLoad ==
    \/ Load
    \/ NewTimepoint
    \/ AddTier
    \/ AddEvent
    \/ AddSpeaker
    \/ OverwriteSpeaker

SpecLoad == InitLoad /\ [][NextLoad]_vars

(***************************************************************************)
(* SpecAll: every construction operation and every lookup.                 *)
(***************************************************************************)
\* two Timepoints, and one call of each other kind
AllBudget == [tp |-> 2, del |-> 1, ev |-> 1, tier |-> 1, spk |-> 1, meta |-> 1, q |-> 1, load |-> 0]

InitAll == InitWith(AllBudget)

NextAll ==
    \/ NewTimepoint
    \/ DelTimepoint
    \/ AddSpeaker
    \/ OverwriteSpeaker
    \/ AddTier
    \/ AddEvent
    \/ GetSpeaker
    \/ ContainsSpeaker
    \/ GetTier
    \/ ContainsTier
    \/ SetProjectName
    \/ SetTranscriptionName
    \/ SetReferencedFileUrl
    \/ AddReferencedFileUrl
    \/ SetUdMetaInformation
    \/ SetComment
    \/ SetTranscriptionConvention

SpecAll == InitAll /\ [][NextAll]_vars

(***************************************************************************)
(* SpecOrder: tiers, time points and events added in any order, no         *)
(* Timepoint destroyed.                                                    *)
(***************************************************************************)
\* two Timepoints, two tiers, two events
OrderBudget == [tp |-> 2, del |-> 0, ev |-> MaxEvents, tier |-> 2, spk |-> 0, meta |-> 0, q |-> 0, load |-> 0]

InitOrder == InitWith(OrderBudget)

NextOrder ==
    \/ NewTimepoint
    \/ AddTier
    \/ AddEvent

SpecOrder == InitOrder /\ [][NextOrder]_vars

(***************************************************************************)
(* SpecCount: Timepoints constructed and destroyed by the caller, around a *)
(* load that constructs Timepoints of its own.                             *)
(***************************************************************************)
\* two Timepoints, one del, one load, one tier and one event
CountBudget == [tp |-> 2, del |-> MaxDeletes, ev |-> 1, tier |-> 1, spk |-> 0, meta |-> 0, q |-> 0, load |-> 1]

InitCount == InitWith(CountBudget)

NextCount ==
    \/ Load
    \/ NewTimepoint
    \/ DelTimepoint
    \/ AddTier
    \/ AddEvent

SpecCount == InitCount /\ [][NextCount]_vars

(***************************************************************************)
(* SpecParse: one text is parsed.                                          *)
(***************************************************************************)
\* one load and no other call
ParseBudget == [tp |-> 0, del |-> 0, ev |-> 0, tier |-> 0, spk |-> 0, meta |-> 0, q |-> 0, load |-> 1]

InitParse == InitWith(ParseBudget)

NextParse == Load

SpecParse == InitParse /\ [][NextParse]_vars

(***************************************************************************)
(* SpecCompare: two Speakers are compared.                                 *)
(***************************************************************************)
\* the identifiers of the Speakers compared: '', 'a', 'b', 'c', 'ab', 'ba'
CompareIds == { EmptyStr, S("a"), S("b"), S("c"), <<"a", "b">>, <<"b", "a">> }

CompareSpeakers ==
    { Speaker(id, EmptyStr, EmptyStr, <<"str", EmptyStr>>, <<"str", EmptyStr>>, <<"str", EmptyStr>>,
              EmptyStr, EmptyStr) : id \in CompareIds }

Compared(op, a, b, ret) ==
    /\ last' = Call(op, <<a, b>>, "", <<>>, Some(ret))
    /\ UNCHANGED <<running_id, nMinted, minted, held, doc, fresh, budget>>

SpeakerLt == \E a \in CompareSpeakers, b \in CompareSpeakers : Compared("__lt__", a, b, Speaker_lt(a, b))
SpeakerLe == \E a \in CompareSpeakers, b \in CompareSpeakers : Compared("__le__", a, b, Speaker_le(a, b))
SpeakerGt == \E a \in CompareSpeakers, b \in CompareSpeakers : Compared("__gt__", a, b, Speaker_gt(a, b))
SpeakerGe == \E a \in CompareSpeakers, b \in CompareSpeakers : Compared("__ge__", a, b, Speaker_ge(a, b))

InitCompare == InitWith(AllBudget)

NextCompare ==
    \/ SpeakerLt
    \/ SpeakerLe
    \/ SpeakerGt
    \/ SpeakerGe

SpecCompare == InitCompare /\ [][NextCompare]_vars

(***************************************************************************)
(* The properties                                                          *)
(***************************************************************************)

\* C1: every event of every tier has its start identifier and its end identifier among
\* the keys of the timeline of the same document, after any sequence of construction
\* operations and after load.
C1_EndpointsInTimeline ==
    \A e \in EventsOf(doc) :
        /\ e.start.time_id \in TimelineKeys(doc)
        /\ e.end.time_id \in TimelineKeys(doc)

\* C1 happens: a parsed document holds an event whose end point no tli element declared
\* (add_event registered the placeholder), and a second event was then added by the caller.
C1_Witness ==
    /\ last.op = "add_event"
    /\ \E e \in EventsOf(doc) : e.start.time_id[1] = "int"
    /\ \E e \in EventsOf(doc) :
          /\ e.end.time_id[1] = "str"
          /\ \E i \in DOMAIN doc.timeline : doc.timeline[i].tp = e.end

(***************************************************************************)
(* Structural equality of two documents, as the round trip states it.      *)
(* Identifiers and time stamps are compared by their printed form, so that *)
(* the int 0 and the str '0' that load makes of it count as the same.      *)
(***************************************************************************)
SameTimepoint(a, b) ==
    /\ format(a.time_id) = format(b.time_id)
    /\ format(a.time_stamp) = format(b.time_stamp)
    /\ a.type = b.type

SameEvent(a, b) ==
    /\ format(get_start_id(a)) = format(get_start_id(b))
    /\ format(get_end_id(a)) = format(get_end_id(b))
    /\ a.content = b.content

SameTier(a, b) ==
    /\ a.id = b.id /\ a.speaker = b.speaker /\ a.category = b.category /\ a.type = b.type
    /\ a.display_name = b.display_name
    /\ Len(a.event_list) = Len(b.event_list)
    /\ \A i \in DOMAIN a.event_list : SameEvent(a.event_list[i], b.event_list[i])

SameDocument(a, b) ==
    /\ a.meta_information = b.meta_information
    /\ SpeakerKeys(a) = SpeakerKeys(b)
    /\ \A id \in SpeakerKeys(a) :
          Speaker_eq(a.speaker_table[SpeakerIndex(a, id)], b.speaker_table[SpeakerIndex(b, id)])
    /\ Len(a.timeline) = Len(b.timeline)
    /\ \A i \in DOMAIN a.timeline :
          /\ format(a.timeline[i].key) = format(b.timeline[i].key)
          /\ SameTimepoint(a.timeline[i].tp, b.timeline[i].tp)
    /\ Len(a.tiers) = Len(b.tiers)
    /\ \A i \in DOMAIN a.tiers : SameTier(a.tiers[i], b.tiers[i])

\* load(print_transcript(doc)) in the current state
Reloaded == load(print_transcript(doc), running_id, nMinted)

\* C2: round trip: load(print_transcript(D)) succeeds and is structurally equal to D, for
\* every document D the construction operations build.
C2_RoundTrip == Reloaded.raised = "" /\ SameDocument(Reloaded.d, doc)

\* C3: print_transcript(load(print_transcript(D))) = print_transcript(D), and the parse of
\* D's own serialization succeeds, for every document D the construction operations build.
C3_Reserialization ==
    Reloaded.raised = "" /\ print_transcript(Reloaded.d) = print_transcript(doc)

\* C4: a newly constructed Timepoint never gets the identifier of a Timepoint that is
\* reachable from the document's timeline or from an event of one of its tiers.
C4_NoIdentifierReuse ==
    last.op = "Timepoint" =>
        \A tp \in TimepointsOf(doc) : tp.time_id # last.ret[1].time_id

\* C5: the first Timepoint constructed gets identifier 0 and every later one an identifier
\* greater than every identifier given before, whatever was destroyed in between.
C5_StrictlyIncreasing ==
    /\ minted # <<>> => minted[1] = 0
    /\ \A i, j \in DOMAIN minted : i < j => minted[i] < minted[j]

\* C6: add_event on a known tier appends the event as the last one of exactly that tier,
\* registers the start and the end time point under their identifiers when these are no
\* keys yet (after the old entries, start before end), and replaces no entry: the time
\* point first registered for an identifier stays.
C6_AddEventKnownTier ==
    [][ (last'.op = "add_event" /\ last'.arg.tier_id \in TierKeys(doc)) =>
          LET e == last'.arg.event
              k == TierIndex(doc, last'.arg.tier_id)
              sid == e.start.time_id
              eid == e.end.time_id
              new == (IF sid \in TimelineKeys(doc) THEN <<>> ELSE << [key |-> sid, tp |-> e.start] >>)
                     \o (IF eid \in TimelineKeys(doc) \cup {sid} THEN <<>> ELSE << [key |-> eid, tp |-> e.end] >>)
          IN  /\ Len(doc'.tiers) = Len(doc.tiers)
              /\ \A i \in DOMAIN doc.tiers :
                    doc'.tiers[i] = IF i = k THEN [doc.tiers[i] EXCEPT !.event_list = Append(@, e)]
                                    ELSE doc.tiers[i]
              /\ doc'.timeline = doc.timeline \o new
              /\ doc'.speaker_table = doc.speaker_table
              /\ doc'.meta_information = doc.meta_information
      ]_vars

\* C6 happens: an event was added to a known tier whose start point is another object, with
\* another time stamp, than the time point the timeline holds under the same identifier.
C6_Witness ==
    /\ last.op = "add_event"
    /\ last.arg.tier_id \in TierKeys(doc)
    /\ \E i \in DOMAIN doc.timeline :
          /\ doc.timeline[i].key = last.arg.event.start.time_id
          /\ doc.timeline[i].tp.oid # last.arg.event.start.oid
          /\ doc.timeline[i].tp.time_stamp # last.arg.event.start.time_stamp

\* C7: add_event with a tier identifier that is no key of the tiers raises nothing, leaves
\* the document (tiers, timeline, speaker table) as it was, and prints something.
C7_AddEventUnknownTier ==
    [][ (last'.op = "add_event" /\ last'.arg.tier_id \notin TierKeys(doc)) =>
          /\ doc' = doc
          /\ last'.raised = ""
          /\ last'.printed # <<>>
      ]_vars

\* C7 happens: an event was added under an unknown tier identifier to a document that has
\* speakers, tiers and time points, and the event's time points are no keys of the timeline.
C7_Witness ==
    /\ last.op = "add_event"
    /\ last.arg.tier_id \notin TierKeys(doc)
    /\ last.arg.event.start.time_id \notin TimelineKeys(doc)
    /\ doc.tiers # <<>> /\ doc.timeline # <<>> /\ doc.speaker_table # <<>>

\* the speaker blocks of a text, and what is read from one
SpeakerBlocks(src) == iter(ElementTree(src), "speaker")
ChildText(e, tag) ==
    IF \E i \in DOMAIN e.children : e.children[i].tag = tag /\ e.children[i].text # None
    THEN e.children[CHOOSE i \in DOMAIN e.children :
                       e.children[i].tag = tag /\ e.children[i].text # None].text[1]
    ELSE EmptyStr

\* C8: add_speaker with an identifier that is in the speaker table leaves the table (and the
\* document) as it was; with a new identifier it appends exactly the one new record.  After
\* load the record under an identifier is the one of the first speaker block with that
\* identifier, and there is one record per identifier, in the order of first occurrence.
C8_FirstRegistrationWins ==
    [][ /\ last'.op = "add_speaker" =>
              IF last'.arg.speaker_id \in SpeakerKeys(doc)
              THEN doc' = doc
              ELSE /\ doc' = [doc EXCEPT !.speaker_table = doc'.speaker_table]
                   /\ Len(doc'.speaker_table) = Len(doc.speaker_table) + 1
                   /\ SubSeq(doc'.speaker_table, 1, Len(doc.speaker_table)) = doc.speaker_table
                   /\ LET s == doc'.speaker_table[Len(doc'.speaker_table)]
                      IN  /\ s.speaker_id = last'.arg.speaker_id
                          /\ s.abbreviation = last'.arg.abbreviation
                          /\ s.sex = last'.arg.sex
                          /\ s.comment = last'.arg.comment
                          /\ s.ud_speaker_information = last'.arg.ud_speaker_information
        /\ (last'.op = "load" /\ last'.raised = "") =>
              LET blocks == SpeakerBlocks(last'.arg)
                  firsts == {i \in DOMAIN blocks :
                               \A j \in 1..(i - 1) : blocks[j].attrib["id"] # blocks[i].attrib["id"]}
              IN  /\ Len(doc'.speaker_table) = Cardinality(firsts)
                  /\ \A i \in firsts :
                        LET n == Cardinality({j \in firsts : j <= i})
                        IN  /\ doc'.speaker_table[n].speaker_id = blocks[i].attrib["id"]
                            /\ doc'.speaker_table[n].abbreviation = ChildText(blocks[i], "abbreviation")
                            /\ doc'.speaker_table[n].comment = ChildText(blocks[i], "comment")
                            /\ doc'.speaker_table[n].l1 =
                                 (IF ChildText(blocks[i], "l1") = EmptyStr THEN <<>>
                                  ELSE <<ChildText(blocks[i], "l1")>>)
      ]_vars

\* C8 happens: a text with two speaker blocks of the same identifier and different
\* abbreviations was parsed, and the one record holds the abbreviation of the first block.
C8_Witness ==
    /\ last.op = "load"
    /\ last.raised = ""
    /\ LET blocks == SpeakerBlocks(last.arg)
       IN  /\ Len(blocks) = 2
           /\ blocks[1].attrib["id"] = blocks[2].attrib["id"]
           /\ ChildText(blocks[1], "abbreviation") # ChildText(blocks[2], "abbreviation")
           /\ Len(doc.speaker_table) = 1
           /\ doc.speaker_table[1].abbreviation = ChildText(blocks[1], "abbreviation")

\* C9: add_tier with an identifier that is a key of the tiers leaves the document as it was
\* (the tier's attributes, its events, its place); with a new identifier it appends one
\* empty tier with the given attributes.
C9_AddTier ==
    [][ last'.op = "add_tier" =>
          IF last'.arg.tier_id \in TierKeys(doc)
          THEN doc' = doc
          ELSE /\ doc' = [doc EXCEPT !.tiers = doc'.tiers]
               /\ Len(doc'.tiers) = Len(doc.tiers) + 1
               /\ SubSeq(doc'.tiers, 1, Len(doc.tiers)) = doc.tiers
               /\ LET t == doc'.tiers[Len(doc'.tiers)]
                  IN  /\ t.id = last'.arg.tier_id
                      /\ t.event_list = <<>>
                      /\ t.speaker = last'.arg.speaker
                      /\ t.category = last'.arg.tier_category
                      /\ t.type = last'.arg.tier_type
                      /\ t.display_name = last'.arg.display_name
      ]_vars

\* C9 happens: add_tier was called with the identifier of a tier that holds an event, is
\* not the last tier, and has another display name than the call gives.
C9_Witness ==
    /\ last.op = "add_tier"
    /\ Len(doc.tiers) = 2
    /\ doc.tiers[1].id = last.arg.tier_id
    /\ doc.tiers[1].event_list # <<>>
    /\ doc.tiers[1].display_name # last.arg.display_name

\* C10: get_speaker and get_tier raise KeyError exactly when the identifier is no key, and
\* return the stored entry otherwise; contains_speaker and contains_tier raise nothing and
\* return whether the identifier is a key; none of the four changes the document.
C10_Lookups ==
    [][ /\ last'.op = "get_speaker" =>
              /\ doc' = doc
              /\ last'.raised = (IF last'.arg \in SpeakerKeys(doc) THEN "" ELSE "KeyError")
              /\ last'.raised = "" => last'.ret[1].speaker_id = last'.arg
        /\ last'.op = "get_tier" =>
              /\ doc' = doc
              /\ last'.raised = (IF last'.arg \in TierKeys(doc) THEN "" ELSE "KeyError")
              /\ last'.raised = "" => last'.ret[1].id = last'.arg
        /\ last'.op = "contains_speaker" =>
              /\ doc' = doc
              /\ last'.raised = ""
              /\ last'.ret = Some(\E i \in DOMAIN doc.speaker_table : doc.speaker_table[i].speaker_id = last'.arg)
        /\ last'.op = "contains_tier" =>
              /\ doc' = doc
              /\ last'.raised = ""
              /\ last'.ret = Some(\E i \in DOMAIN doc.tiers : doc.tiers[i].id = last'.arg)
      ]_vars

\* C10 happens: get_speaker raised KeyError for an identifier that is no key of a speaker
\* table that holds another speaker.
C10_Witness ==
    /\ last.op = "get_speaker"
    /\ last.raised = "KeyError"
    /\ doc.speaker_table # <<>>
    /\ last.arg \notin SpeakerKeys(doc)

(***************************************************************************)
(* What a serialization shows: the identifiers of its tli elements, the    *)
(* identifiers of its tier blocks and the events of a tier block, each in  *)
(* the order of the text.                                                  *)
(***************************************************************************)
AttribOf(elems, name) == [i \in DOMAIN elems |-> elems[i].attrib[name]]
PrintedTliIds(d) == AttribOf(iter(print_transcript(d), "tli"), "id")
PrintedTierIds(d) == AttribOf(iter(print_transcript(d), "tier"), "id")
PrintedEvents(d, tier_id) ==
    LET ts == iter(print_transcript(d), "tier")
    IN  Concat([i \in DOMAIN ts |-> IF ts[i].attrib["id"] = tier_id THEN ts[i].children ELSE <<>>])
TId(time_id) == <<"T">> \o format(time_id)

\* C11: a call of add_tier with a new identifier puts its tier block after the tier blocks
\* printed before and changes nothing else of the order; a call of add_event on a known tier
\* puts the tli elements of the identifiers it registers after the tli elements printed
\* before (start before end) and its event element after the events of that tier; so tier
\* blocks, tli elements and events are printed in the order of first insertion.
C11_OrderPreservation ==
    [][ /\ last'.op = "add_tier" =>
              /\ PrintedTierIds(doc') =
                    PrintedTierIds(doc) \o (IF last'.arg.tier_id \in TierKeys(doc) THEN <<>>
                                            ELSE <<last'.arg.tier_id>>)
              /\ PrintedTliIds(doc') = PrintedTliIds(doc)
              /\ \A t \in TierKeys(doc) : PrintedEvents(doc', t) = PrintedEvents(doc, t)
        /\ (last'.op = "add_event" /\ last'.arg.tier_id \in TierKeys(doc)) =>
              LET e == last'.arg.event
                  sid == e.start.time_id
                  eid == e.end.time_id
              IN  /\ PrintedTierIds(doc') = PrintedTierIds(doc)
                  /\ PrintedTliIds(doc') =
                        PrintedTliIds(doc)
                        \o (IF sid \in TimelineKeys(doc) THEN <<>> ELSE <<TId(sid)>>)
                        \o (IF eid \in TimelineKeys(doc) \cup {sid} THEN <<>> ELSE <<TId(eid)>>)
                  /\ \A t \in TierKeys(doc) :
                        PrintedEvents(doc', t) =
                          PrintedEvents(doc, t)
                          \o (IF t = last'.arg.tier_id
                              THEN << El("event", ("start" :> TId(sid)) @@ ("end" :> TId(eid)), e.content, <<>>) >>
                              ELSE <<>>)
      ]_vars

\* C11 happens: the tier blocks are printed t2 before t1 and the tli elements T1 before T0,
\* as they were inserted, and t1 holds two events.
C11_Witness ==
    /\ last.op = "add_event"
    /\ PrintedTierIds(doc) = << S("t2"), S("t1") >>
    /\ Len(PrintedTliIds(doc)) >= 2
    /\ PrintedTliIds(doc)[1] = <<"T", "1">>
    /\ PrintedTliIds(doc)[2] = <<"T", "0">>
    /\ Len(PrintedEvents(doc, S("t1"))) = 2

\* C12: the speaker blocks of the serialization are in strictly ascending order of their
\* identifiers (so each identifier once), they are the blocks of exactly the registered
\* speakers, and an empty speaker table is printed as an empty speakertable element.
C12_SpeakerTableSorted ==
    LET table == print_transcript(doc).children[1].children[2]
        blocks == table.children
        ids == AttribOf(blocks, "id")
    IN  /\ table.tag = "speakertable"
        /\ ToSet([i \in DOMAIN blocks |-> blocks[i].tag]) \subseteq {"speaker"}
        /\ \A i, j \in DOMAIN ids : i < j => str_lt(ids[i], ids[j])
        /\ ToSet(ids) = SpeakerKeys(doc)
        /\ \A i \in DOMAIN blocks :
              blocks[i] = Speaker_pretty_print(doc.speaker_table[SpeakerIndex(doc, ids[i])])
        /\ doc.speaker_table = <<>> => table = El("speakertable", NoAttrib, EmptyStr, <<>>)

\* C12 happens: speaker b was registered before speaker a, by the parser or by the caller,
\* and a was added or overwritten last.
C12_Witness ==
    /\ last.op \in {"add_speaker", "overwrite_speaker"}
    /\ Len(doc.speaker_table) = 2
    /\ doc.speaker_table[1].speaker_id = S("b")
    /\ doc.speaker_table[2].speaker_id = S("a")
    /\ last.arg.speaker_id = S("a")

\* C13: in the serialization the basic-body holds the common-timeline first and after it
\* only tier blocks, and the start and the end attribute of every event element is the id
\* attribute of a tli element of that common-timeline.
C13_TimelineBeforeTiers ==
    LET body == print_transcript(doc).children[2].children
    IN  /\ body # <<>>
        /\ [i \in DOMAIN body |-> body[i].tag] =
              [i \in DOMAIN body |-> IF i = 1 THEN "common-timeline" ELSE "tier"]
        /\ LET declared == ToSet(AttribOf(body[1].children, "id"))
           IN  \A i \in 2..Len(body) :
                 LET events == body[i].children
                 IN  /\ ToSet([j \in DOMAIN events |-> events[j].tag]) \subseteq {"event"}
                     /\ ToSet(AttribOf(events, "start")) \subseteq declared
                     /\ ToSet(AttribOf(events, "end")) \subseteq declared

\* C13 happens: the document holds a parsed event, whose start point is another object than
\* the time point the timeline declares under that identifier, and an event the caller
\* added with Timepoints of its own.
C13_Witness ==
    /\ last.op = "add_event"
    /\ Cardinality(EventsOf(doc)) = 2
    /\ \E e \in EventsOf(doc) :
          /\ e.start.time_id[1] = "str"
          /\ \E i \in DOMAIN doc.timeline :
                doc.timeline[i].key = e.start.time_id /\ doc.timeline[i].tp.oid # e.start.oid
    /\ \E e \in EventsOf(doc) : e.start.time_id[1] = "int"

\* the elements of a parsed text, as the file holds them
InputElems(tag) == iter(last.arg, tag)

\* C14: after load, for every tli element (declared once) with id T<n> the timeline holds an
\* entry under n whose Timepoint has the identifier n, the declared time stamp and the
\* declared type tag, and that entry is not the placeholder of an event.
C14_DeclaredTimepoints ==
    (last.op = "load" /\ last.raised = "") =>
        LET tlis == InputElems("tli")
        IN  \A i \in DOMAIN tlis :
              (\A j \in DOMAIN tlis : j # i => tlis[j].attrib["id"] # tlis[i].attrib["id"]) =>
                 \E k \in DOMAIN doc.timeline :
                    /\ format(doc.timeline[k].key) = slice1(tlis[i].attrib["id"])
                    /\ format(doc.timeline[k].tp.time_id) = slice1(tlis[i].attrib["id"])
                    /\ format(doc.timeline[k].tp.time_stamp) = tlis[i].attrib["time"]
                    /\ doc.timeline[k].tp.type = attrib_or_empty(tlis[i], "type")
                    /\ \A e \in EventsOf(doc) :
                          doc.timeline[k].tp.oid \notin {e.start.oid, e.end.oid}

\* the text of the last element with that name under the meta-information of a parsed
\* text, stripped, and '' when there is none
InputMetaText(tag) ==
    LET es == iter(Head(InputElems("meta-information")), tag)
    IN  IF es = <<>> THEN EmptyStr ELSE strip(es[Len(es)].text)

\* C15: after load the metadata record holds the project name, the transcription name, the
\* url of every referenced-file element, the ud-meta-information, the comment and the
\* transcription convention of the text, and '' (no url) where the element is missing.
C15_LoadMetadata ==
    (last.op = "load" /\ last.raised = "") =>
        LET m == doc.meta_information
        IN  /\ m.project_name = InputMetaText("project-name")
            /\ m.transcription_name = InputMetaText("transcription-name")
            /\ m.referenced_file_url = AttribOf(InputElems("referenced-file"), "url")
            /\ m.ud_meta_information = InputMetaText("ud-meta-information")
            /\ m.comment = InputMetaText("comment")
            /\ m.transcription_convention = InputMetaText("transcription-convention")

\* C16: load of a well-formed text raises nothing, whatever optional attribute or element
\* the text omits, and the omitted field has its default: a speaker without a child element
\* has '' or [] there, a tli without time has the time stamp -1, a tier without an attribute
\* has '' there.
C16_Defaulting ==
    (last.op = "load" /\ WellFormed(last.arg)) =>
        /\ last.raised = ""
        /\ \A i \in DOMAIN InputElems("speaker") :
              LET e == InputElems("speaker")[i]
                  sp == doc.speaker_table[SpeakerIndex(doc, e.attrib["id"])]
              IN  (e.children = <<>> /\ \A j \in 1..(i - 1) : InputElems("speaker")[j].attrib["id"] # e.attrib["id"])
                      => sp = Speaker(e.attrib["id"], EmptyStr, EmptyStr, <<"list", <<>> >>, <<"list", <<>> >>,
                                      <<"list", <<>> >>, EmptyStr, EmptyStr)
        /\ \A i \in DOMAIN InputElems("tli") :
              LET e == InputElems("tli")[i]
              IN  "time" \notin DOMAIN e.attrib =>
                     \E k \in DOMAIN doc.timeline :
                        /\ format(doc.timeline[k].key) = slice1(e.attrib["id"])
                        /\ doc.timeline[k].tp.time_stamp = DefaultTimeStamp
        /\ \A i \in DOMAIN InputElems("tier") :
              LET e == InputElems("tier")[i]
                  t == doc.tiers[TierIndex(doc, e.attrib["id"])]
              IN  (\A j \in 1..(i - 1) : InputElems("tier")[j].attrib["id"] # e.attrib["id"])
                      => /\ t.speaker = attrib_or_empty(e, "speaker")
                         /\ t.category = attrib_or_empty(e, "category")
                         /\ t.type = attrib_or_empty(e, "type")
                         /\ t.display_name = attrib_or_empty(e, "display-name")

IsEvent(x) == x.tag = "event"
NotEvent(x) == x.tag # "event"

\* C17: after load of a text with tier blocks that hold children that are no events, one
\* diagnostic was printed per such child, every tier of the text is registered, and the
\* events of a tier are the event children of its blocks in the order of the text: the ones
\* before and after such a child, and none for it.
C17_NonEventChild ==
    (last.op = "load" /\ last.raised = "") =>
        LET tiers == InputElems("tier")
            anomalies == Concat([i \in DOMAIN tiers |-> SelectSeq(tiers[i].children, NotEvent)])
        IN  /\ last.printed = [i \in DOMAIN anomalies |-> <<"Issue: something unexpected in tier ">>]
            /\ TierKeys(doc) = ToSet(AttribOf(tiers, "id"))
            /\ \A k \in DOMAIN doc.tiers :
                  LET given == Concat([i \in DOMAIN tiers |->
                                        IF tiers[i].attrib["id"] = doc.tiers[k].id
                                        THEN SelectSeq(tiers[i].children, IsEvent) ELSE <<>>])
                      got == doc.tiers[k].event_list
                  IN  [j \in DOMAIN got |->
                         <<format(get_start_id(got[j])), format(get_end_id(got[j])), got[j].content>>]
                      = [j \in DOMAIN given |->
                           <<slice1(given[j].attrib["start"]), slice1(given[j].attrib["end"]), given[j].text>>]

\* C17 happens: a text was parsed whose first tier block holds an event, a child that is no
\* event and another event, and whose second tier block is another tier.
C17_Witness ==
    /\ last.op = "load"
    /\ last.raised = ""
    /\ Len(last.printed) = 1
    /\ Len(doc.tiers) = 2
    /\ Len(doc.tiers[1].event_list) = 2
    /\ LET first == InputElems("tier")[1].children
       IN  Len(first) = 3 /\ NotEvent(first[2])

\* the lexicographic order of two strings of tokens, stated on their first difference
LexLess(s, t) ==
    \E n \in 0..Len(s) :
        /\ n <= Len(t)
        /\ SubSeq(s, 1, n) = SubSeq(t, 1, n)
        /\ \/ n = Len(s) /\ n < Len(t)
           \/ n < Len(s) /\ n < Len(t) /\ TokenRank(s[n + 1]) < TokenRank(t[n + 1])

\* C18: each of <, <=, >, >= on two Speakers returns the result of the same comparison of
\* their identifiers in the lexicographic order; so a >= b is the negation of a < b.
C18_SpeakerOrdering ==
    last.op \in {"__lt__", "__le__", "__gt__", "__ge__"} =>
        LET x == last.arg[1].speaker_id
            y == last.arg[2].speaker_id
        IN  last.ret = Some(CASE last.op = "__lt__" -> LexLess(x, y)
                              [] last.op = "__le__" -> LexLess(x, y) \/ x = y
                              [] last.op = "__gt__" -> LexLess(y, x)
                              [] last.op = "__ge__" -> ~LexLess(x, y))

\* C19: a tier that add_tier adds with the category and the type argument omitted (they have
\* the defaults of add_tier's parameters) has the category 'v' and the type 't', and is
\* printed with category="v" type="t".
C19_TierDefaults ==
    [][ ( /\ last'.op = "add_tier"
          /\ last'.arg.tier_id \notin TierKeys(doc)
          /\ last'.arg.tier_category = add_tier_defaults.tier_category
          /\ last'.arg.tier_type = add_tier_defaults.tier_type ) =>
            LET t == doc'.tiers[TierIndex(doc', last'.arg.tier_id)]
            IN  /\ t.category = S("v")
                /\ t.type = S("t")
                /\ Tier_pretty_print(t).attrib["category"] = S("v")
                /\ Tier_pretty_print(t).attrib["type"] = S("t")
      ]_vars

\* the Timepoint objects alive: the ones the caller or the document refers to
Alive == {tp.oid : tp \in held \cup TimepointsOf(doc)}

\* C20: Timepoint.running_id is the number of Timepoint objects alive, so it is never
\* negative, and the identifier a new Timepoint was given is the number of Timepoints that
\* were alive before its construction, the ones load constructed included.
C20_CounterIsAliveCount ==
    /\ running_id = Cardinality(Alive)
    /\ running_id >= 0
    /\ last.op = "Timepoint" => last.ret[1].time_id = IntV(Cardinality(Alive) - 1)

\* C20 happens: the caller constructed a Timepoint and destroyed it, a text with two tli
\* elements and an event was parsed, and the Timepoint constructed then got identifier 4.
C20_Witness ==
    /\ last.op = "Timepoint"
    /\ last.ret[1].time_id = IntV(4)
    /\ Cardinality(held) = 1
    /\ budget.del = 0
    /\ Len(doc.timeline) = 2
    /\ Cardinality(EventsOf(doc)) = 1

IsTimelineBlock(x) == x.tag = "common-timeline"
NotTimelineBlock(x) == x.tag # "common-timeline"

\* a text with the blocks of its basic-body put in another order: the common-timeline
\* blocks after the others, or before them
WithBody(src, blocks) == [src EXCEPT !.children[2].children = blocks]
TimelineLast(src) ==
    LET b == src.children[2].children
    IN  WithBody(src, SelectSeq(b, NotTimelineBlock) \o SelectSeq(b, IsTimelineBlock))
TimelineFirst(src) ==
    LET b == src.children[2].children
    IN  WithBody(src, SelectSeq(b, IsTimelineBlock) \o SelectSeq(b, NotTimelineBlock))

\* the identifiers the tli elements of the parsed text declare, as keys of the timeline
DeclaredKeys == {StrV(slice1(InputElems("tli")[i].attrib["id"])) : i \in DOMAIN InputElems("tli")}

\* C21: after load the timeline holds first the entries of the declared identifiers, with
\* their declared time stamps, and after them the placeholders (no time stamp) of the event
\* end points that no tli element declares; and the document is the same as the one load
\* builds from the text with the common-timeline moved behind, or before, the tier blocks.
C21_TimelineBeforeTiersInLoad ==
    (last.op = "load" /\ last.raised = "") =>
        LET n == Cardinality(DeclaredKeys)
        IN  /\ Len(doc.timeline) >= n
            /\ \A k \in DOMAIN doc.timeline :
                  IF k <= n
                  THEN /\ doc.timeline[k].key \in DeclaredKeys
                       /\ doc.timeline[k].tp.time_stamp # DefaultTimeStamp
                  ELSE /\ doc.timeline[k].key \notin DeclaredKeys
                       /\ doc.timeline[k].tp.time_stamp = DefaultTimeStamp
                       /\ \E e \in EventsOf(doc) : doc.timeline[k].tp \in {e.start, e.end}
            /\ \A moved \in {TimelineLast(last.arg), TimelineFirst(last.arg)} \ {last.arg} :
                  LET other == load(moved, 0, 0)
                  IN  other.raised = "" /\ SameDocument(other.d, doc)

\* C21 happens: a text was parsed whose tier block comes before its common-timeline, with an
\* event from a declared time point to one that no tli element declares.
C21_Witness ==
    /\ last.op = "load"
    /\ last.raised = ""
    /\ LET b == last.arg.children[2].children
       IN  Len(b) = 2 /\ b[1].tag = "tier" /\ b[2].tag = "common-timeline"
    /\ Len(doc.timeline) = 3
    /\ doc.timeline[3].key \notin DeclaredKeys
    /\ \E e \in EventsOf(doc) : e.start.time_id \in DeclaredKeys /\ e.end.time_id \notin DeclaredKeys

\* the indices of the elements that are the first, and the last, with their id
FirstOfId(elems) == {i \in DOMAIN elems : \A j \in 1..(i - 1) : elems[j].attrib["id"] # elems[i].attrib["id"]}
LastOfId(elems, i) ==
    CHOOSE j \in DOMAIN elems :
        /\ elems[j].attrib["id"] = elems[i].attrib["id"]
        /\ \A m \in (j + 1)..Len(elems) : elems[m].attrib["id"] # elems[i].attrib["id"]

\* C22: after load the timeline holds one entry per declared tli identifier, in the order
\* of the first declarations, and the entry's Timepoint is the one of the last declaration
\* of the identifier; the document holds one tier per tier identifier of the text, in the
\* order of the first blocks, with the attributes of the first block and the events of all
\* blocks of the identifier in the order of the text.
C22_RepeatedIdentifiers ==
    (last.op = "load" /\ last.raised = "") =>
        LET tlis == InputElems("tli")
            tiers == InputElems("tier")
        IN  /\ Cardinality(TimelineKeys(doc)) = Len(doc.timeline)
            /\ \A i \in FirstOfId(tlis) :
                  LET n == Cardinality({j \in FirstOfId(tlis) : j <= i})
                      e == doc.timeline[n]
                  IN  /\ format(e.key) = slice1(tlis[i].attrib["id"])
                      /\ format(e.tp.time_id) = slice1(tlis[i].attrib["id"])
                      /\ format(e.tp.time_stamp) = tlis[LastOfId(tlis, i)].attrib["time"]
            /\ Len(doc.tiers) = Cardinality(FirstOfId(tiers))
            /\ \A i \in FirstOfId(tiers) :
                  LET n == Cardinality({j \in FirstOfId(tiers) : j <= i})
                      t == doc.tiers[n]
                      given == Concat([j \in DOMAIN tiers |->
                                        IF tiers[j].attrib["id"] = tiers[i].attrib["id"]
                                        THEN SelectSeq(tiers[j].children, IsEvent) ELSE <<>>])
                  IN  /\ t.id = tiers[i].attrib["id"]
                      /\ t.speaker = attrib_or_empty(tiers[i], "speaker")
                      /\ t.category = attrib_or_empty(tiers[i], "category")
                      /\ t.type = attrib_or_empty(tiers[i], "type")
                      /\ t.display_name = attrib_or_empty(tiers[i], "display-name")
                      /\ [j \in DOMAIN t.event_list |->
                            <<format(get_start_id(t.event_list[j])), format(get_end_id(t.event_list[j])),
                              t.event_list[j].content>>]
                         = [j \in DOMAIN given |->
                              <<slice1(given[j].attrib["start"]), slice1(given[j].attrib["end"]), given[j].text>>]

\* C22 happens: a text was parsed that declares T0, then T1, then T0 again with another
\* time, and the timeline holds T0 first, with the time declared last.
C22_Witness ==
    /\ last.op = "load"
    /\ last.raised = ""
    /\ LET tlis == InputElems("tli")
       IN  /\ Len(tlis) = 3
           /\ tlis[1].attrib["id"] = tlis[3].attrib["id"]
           /\ tlis[1].attrib["time"] # tlis[3].attrib["time"]
           /\ Len(doc.timeline) = 2
           /\ format(doc.timeline[1].key) = slice1(tlis[1].attrib["id"])
           /\ format(doc.timeline[1].tp.time_stamp) = tlis[3].attrib["time"]

====
